---- MODULE Spec2Model ----
(***************************************************************************)
(* State-machine model of src/app.js: the React todo application.          *)
(*                                                                         *)
(* The state is the React state of App (todos, filter) and ThemeProvider   *)
(* (isDarkMode), the two localStorage entries, the state update queued by  *)
(* the load effect, the delete timers started by TodoItem.handleDelete,    *)
(* and the position of the React scheduler (pc).  lastOp is a history      *)
(* variable: the last event handler that ran, whether it changed the       *)
(* collection, and whether it wrote the task key of localStorage.          *)
(***************************************************************************)
EXTENDS Integers, Sequences, FiniteSets, TLC

\* Bounds of the model.
MaxTodos == 2      \* addTodo is not taken once the collection holds this many records
MaxTimers == 2     \* delete timers that may be pending at once

VARIABLES todos, filter, isDarkMode, store, themeStore, pending, timers, pc, lastOp

vars == <<todos, filter, isDarkMode, store, themeStore, pending, timers, pc, lastOp>>

(***************************************************************************)
(* Strings are sequences of characters; String.prototype.trim removes the  *)
(* white space at both ends.                                               *)
(***************************************************************************)
Whitespace == {" "}

RECURSIVE trimStart(_)
trimStart(s) ==
    IF s # <<>> /\ Head(s) \in Whitespace THEN trimStart(Tail(s)) ELSE s

RECURSIVE trimEnd(_)
trimEnd(s) ==
    IF s # <<>> /\ s[Len(s)] \in Whitespace THEN trimEnd(SubSeq(s, 1, Len(s) - 1)) ELSE s

\* Variant of trim that removes nothing.
trimNothing(s) == s

trim(s) == trimEnd(trimStart(s))

\* What the user can have typed into the add box or an edit box.
InputValues == { <<>>, <<" ", " ">>, <<"a">>, <<" ", "b", " ">> }

(***************************************************************************)
(* localStorage and JSON.  A storage entry is absent (getItem gives null), *)
(* or holds a text; a text either is JSON (ok, with the JSON value j it    *)
(* denotes) or is not (JSON.parse throws).  A JSON object is the sequence  *)
(* of its <<key, value>> members in the order JSON.stringify emits them.   *)
(***************************************************************************)
Absent == [s |-> "absent"]
Unparsable == [s |-> "text", ok |-> FALSE]
JsonText(j) == [s |-> "text", ok |-> TRUE, j |-> j]
JsonNull == JsonText([t |-> "null"])

\* Variant of stringifyTodo that does not persist the completed flag.
stringifyTodoNoFlag(todo) ==
    << <<"id", todo.id>>, <<"text", todo.text>>,
       <<"completed", FALSE>>, <<"createdAt", todo.createdAt>> >>

stringifyTodo(todo) ==
    << <<"id", todo.id>>, <<"text", todo.text>>,
       <<"completed", todo.completed>>, <<"createdAt", todo.createdAt>> >>

stringifyTodos(list) ==
    JsonText([t |-> "array", v |-> [k \in 1..Len(list) |-> stringifyTodo(list[k])]])

stringifyBool(b) == JsonText([t |-> "boolean", v |-> b])

member(obj, key) == obj[CHOOSE k \in DOMAIN obj : obj[k][1] = key][2]

parseObject(obj) ==
    [id |-> member(obj, "id"), text |-> member(obj, "text"),
     completed |-> member(obj, "completed"), createdAt |-> member(obj, "createdAt")]

\* JSON.parse: [ok |-> FALSE] stands for the SyntaxError it throws.
parse(text) ==
    IF ~text.ok THEN [ok |-> FALSE]
    ELSE IF text.j.t = "array"
         THEN [ok |-> TRUE,
               val |-> [t |-> "array",
                        v |-> [k \in 1..Len(text.j.v) |-> parseObject(text.j.v[k])]]]
         ELSE [ok |-> TRUE, val |-> text.j]

NoUpdate == [t |-> "none"]

(***************************************************************************)
(* The state updaters of App and the view of TodoList.                     *)
(***************************************************************************)
\* Date.now() + Math.random() is rounded to the nearest double.  For a clock
\* between 2^40 and 2^41 ms (the years 2004 to 2039) doubles are 2^-12
\* apart, so an id is the millisecond plus one of UlpsPerMs steps; ids are
\* counted in these steps.  The model reads the clock within one millisecond
\* (adds in rapid succession) and draws the two lowest values of the random
\* part.
UlpsPerMs == 4096
ClockReadings == {0}
RandomSamples == {0, 1}

newId(ms, r) == ms * UlpsPerMs + r

newTodo(text, ms, r) ==
    [id |-> newId(ms, r), text |-> text, completed |-> FALSE, createdAt |-> ms]

\* Variant of addTodo that appends the new record.
addTodoAtEnd(prevTodos, todo) == prevTodos \o <<todo>>

addTodo(prevTodos, todo) == <<todo>> \o prevTodos

\* Variant of toggleTodo that marks the record completed instead of flipping it.
toggleTodoSetsDone(prevTodos, id) ==
    [k \in 1..Len(prevTodos) |->
        IF prevTodos[k].id = id
        THEN [prevTodos[k] EXCEPT !.completed = TRUE]
        ELSE prevTodos[k]]

toggleTodo(prevTodos, id) ==
    [k \in 1..Len(prevTodos) |->
        IF prevTodos[k].id = id
        THEN [prevTodos[k] EXCEPT !.completed = ~prevTodos[k].completed]
        ELSE prevTodos[k]]

\* Variant of deleteTodo written with findIndex and splice: when no record has
\* the id, findIndex gives -1 and splice(-1, 1) removes the last record.
deleteTodoSplice(prevTodos, id) ==
    LET hits == {k \in 1..Len(prevTodos) : prevTodos[k].id = id}
        idx == IF hits = {} THEN Len(prevTodos)
               ELSE CHOOSE k \in hits : \A m \in hits : k <= m
    IN  IF prevTodos = <<>> THEN prevTodos
        ELSE [k \in 1..(Len(prevTodos) - 1) |->
                 IF k < idx THEN prevTodos[k] ELSE prevTodos[k + 1]]

keepOnDelete(todo, id) == todo.id # id

deleteTodo(prevTodos, id) == SelectSeq(prevTodos, LAMBDA todo : keepOnDelete(todo, id))

\* Variant of editTodo that rebuilds the record as a fresh, pending one.
editTodoResets(prevTodos, id, newText) ==
    [k \in 1..Len(prevTodos) |->
        IF prevTodos[k].id = id
        THEN [prevTodos[k] EXCEPT !.text = newText, !.completed = FALSE]
        ELSE prevTodos[k]]

\* Variant of editTodo that maps every record, without the test on the id.
editTodoAll(prevTodos, id, newText) ==
    [k \in 1..Len(prevTodos) |-> [prevTodos[k] EXCEPT !.text = newText]]

editTodo(prevTodos, id, newText) ==
    [k \in 1..Len(prevTodos) |->
        IF prevTodos[k].id = id
        THEN [prevTodos[k] EXCEPT !.text = newText]
        ELSE prevTodos[k]]

Filters == {"all", "completed", "pending"}

\* Variant of matchesFilter whose 'pending' case repeats the 'completed' one.
matchesFilterCopied(todo, f) ==
    CASE f = "completed" -> todo.completed
      [] f = "pending" -> todo.completed
      [] OTHER -> TRUE

matchesFilter(todo, f) ==
    CASE f = "completed" -> todo.completed
      [] f = "pending" -> ~todo.completed
      [] OTHER -> TRUE

filteredTodos(list, f) == SelectSeq(list, LAMBDA todo : matchesFilter(todo, f))

\* The counts App renders in its header and on the filter buttons.
totalTodos(list) == Len(list)

completedTodos(list) == Len(SelectSeq(list, LAMBDA todo : todo.completed))

\* Variant of pendingTodos that forgets the subtraction.
pendingTodosNoSubtract(list) == totalTodos(list)

pendingTodos(list) == totalTodos(list) - completedTodos(list)

Op(name, changed, wrote) == [op |-> name, changed |-> changed, wrote |-> wrote]

(***************************************************************************)
(* Initial state: the page is loaded, nothing is rendered yet.  The two    *)
(* storage entries hold whatever an earlier session or another script left.*)
(***************************************************************************)
StoredTodosAtStart == {Absent, Unparsable, JsonNull}
StoredThemeAtStart == {Absent, Unparsable, stringifyBool(TRUE)}

Init ==
    /\ todos = <<>>
    /\ filter = "all"
    /\ isDarkMode = FALSE
    /\ store \in StoredTodosAtStart
    /\ themeStore \in StoredThemeAtStart
    /\ pending = NoUpdate
    /\ timers = <<>>
    /\ pc = "boot"
    /\ lastOp = Op("load", FALSE, FALSE)

\* Variant of loadTodos without the try/catch: the SyntaxError escapes.
loadTodosNoCatch(savedTodos) ==
    IF savedTodos # Absent
    THEN IF parse(savedTodos).ok THEN parse(savedTodos).val ELSE [t |-> "SyntaxError"]
    ELSE NoUpdate

\* Variant of saveEffect that closes over the todos of the first render.
saveEffectFirstRender(list) == stringifyTodos(<<>>)

\* The bodies of App's load and save effects and of ThemeProvider's effect.
\* loadTodos gives the state update the load effect queues; the catch block
\* only logs, so a text that does not parse queues nothing.
loadTodos(savedTodos) ==
    IF savedTodos # Absent
    THEN IF parse(savedTodos).ok THEN parse(savedTodos).val ELSE NoUpdate
    ELSE NoUpdate

saveEffect(list) == stringifyTodos(list)

themeEffect(dark) == stringifyBool(dark)

(***************************************************************************)
(* Mounting: the first render, then the effects, children first, then the  *)
(* render the load effect asked for.                                       *)
(***************************************************************************)
\* ReactDOM.render: the useState initializers of ThemeProvider and App.
Mount ==
    /\ pc = "boot"
    /\ IF themeStore = Absent
       THEN isDarkMode' = FALSE /\ pc' = "loadEffect"
       ELSE IF parse(themeStore).ok
            THEN isDarkMode' = parse(themeStore).val.v /\ pc' = "loadEffect"
            ELSE isDarkMode' = isDarkMode /\ pc' = "crashed"
    /\ todos' = <<>>
    /\ filter' = "all"
    /\ UNCHANGED <<store, themeStore, pending, timers, lastOp>>

\* App's first effect: read the stored collection and queue it as the state.
LoadEffect ==
    /\ pc = "loadEffect"
    /\ pending' = loadTodos(store)
    /\ pc' = "saveEffect"
    /\ UNCHANGED <<todos, filter, isDarkMode, store, themeStore, timers, lastOp>>

\* App's second effect, after the first render: todos is still the initial [].
SaveEffect ==
    /\ pc = "saveEffect"
    /\ store' = saveEffect(todos)
    /\ pc' = "themeEffect"
    /\ UNCHANGED <<todos, filter, isDarkMode, themeStore, pending, timers, lastOp>>

\* ThemeProvider's effect, after the first render.
ThemeEffect ==
    /\ pc = "themeEffect"
    /\ themeStore' = themeEffect(isDarkMode)
    /\ pc' = IF pending # NoUpdate THEN "rerender" ELSE "idle"
    /\ UNCHANGED <<todos, filter, isDarkMode, store, pending, timers, lastOp>>

\* The render caused by setTodos(parsedTodos): App reads todos.length and
\* todos.filter, which throws unless the value is an array; after a render
\* that succeeds the save effect runs again.
Rerender ==
    /\ pc = "rerender"
    /\ IF pending.t = "array"
       THEN todos' = pending.v /\ store' = saveEffect(todos') /\ pc' = "idle"
       ELSE UNCHANGED <<todos, store>> /\ pc' = "crashed"
    /\ pending' = NoUpdate
    /\ UNCHANGED <<filter, isDarkMode, themeStore, timers, lastOp>>

(***************************************************************************)
(* Event handlers.  Each runs when React is idle and is taken with the     *)
(* render it causes and the effects of that render: React runs them before *)
(* it handles the next event.                                              *)
(***************************************************************************)
\* AddTodo.handleSubmit with inputValue typed in the box; ms is Date.now()
\* and r is Math.random().
HandleSubmit(inputValue) ==
    /\ pc = "idle"
    /\ LET trimmedValue == trim(inputValue) IN
       IF trimmedValue # <<>>
       THEN /\ Len(todos) < MaxTodos
            /\ \E ms \in ClockReadings, r \in RandomSamples :
                  todos' = addTodo(todos, newTodo(trimmedValue, ms, r))
            /\ store' = saveEffect(todos')
            /\ lastOp' = Op("addTodo", TRUE, TRUE)
       ELSE /\ UNCHANGED <<todos, store>>
            /\ lastOp' = Op("handleSubmit", FALSE, FALSE)
    /\ UNCHANGED <<filter, isDarkMode, themeStore, pending, timers, pc>>

\* Click on the checkbox of the k-th item shown.
ToggleClick(k) ==
    /\ pc = "idle"
    /\ k \in 1..Len(filteredTodos(todos, filter))
    /\ todos' = toggleTodo(todos, filteredTodos(todos, filter)[k].id)
    /\ store' = saveEffect(todos')
    /\ lastOp' = Op("toggleTodo", todos' # todos, TRUE)
    /\ UNCHANGED <<filter, isDarkMode, themeStore, pending, timers, pc>>

\* Variant of handleEdit without the comparison with todo.text.
HandleEditAnyText(k, editValue) ==
    /\ pc = "idle"
    /\ k \in 1..Len(filteredTodos(todos, filter))
    /\ LET todo == filteredTodos(todos, filter)[k]
           trimmedValue == trim(editValue) IN
       IF trimmedValue # <<>>
       THEN /\ todos' = editTodo(todos, todo.id, trimmedValue)
            /\ store' = saveEffect(todos')
            /\ lastOp' = Op("editTodo", todos' # todos, TRUE)
       ELSE /\ UNCHANGED <<todos, store>>
            /\ lastOp' = Op("handleEdit", FALSE, FALSE)
    /\ UNCHANGED <<filter, isDarkMode, themeStore, pending, timers, pc>>

\* TodoItem.handleEdit of the k-th item shown, in editing mode with editValue.
HandleEdit(k, editValue) ==
    /\ pc = "idle"
    /\ k \in 1..Len(filteredTodos(todos, filter))
    /\ LET todo == filteredTodos(todos, filter)[k]
           trimmedValue == trim(editValue) IN
       IF trimmedValue # <<>> /\ trimmedValue # todo.text
       THEN /\ todos' = editTodo(todos, todo.id, trimmedValue)
            /\ store' = saveEffect(todos')
            /\ lastOp' = Op("editTodo", todos' # todos, TRUE)
       ELSE /\ UNCHANGED <<todos, store>>
            /\ lastOp' = Op("handleEdit", FALSE, FALSE)
    /\ UNCHANGED <<filter, isDarkMode, themeStore, pending, timers, pc>>

\* Variant of handleDelete that removes the record at once, from the list of
\* the render the click happened in, and still starts the timer.
HandleDeleteAtOnce(k) ==
    /\ pc = "idle"
    /\ k \in 1..Len(filteredTodos(todos, filter))
    /\ Len(timers) < MaxTimers
    /\ timers' = Append(timers, filteredTodos(todos, filter)[k].id)
    /\ todos' = deleteTodo(todos, filteredTodos(todos, filter)[k].id)
    /\ store' = saveEffect(todos')
    /\ lastOp' = Op("handleDelete", FALSE, FALSE)
    /\ UNCHANGED <<filter, isDarkMode, themeStore, pending, pc>>

\* TodoItem.handleDelete of the k-th item shown: starts the 300 ms timer.
HandleDelete(k) ==
    /\ pc = "idle"
    /\ k \in 1..Len(filteredTodos(todos, filter))
    /\ Len(timers) < MaxTimers
    /\ timers' = Append(timers, filteredTodos(todos, filter)[k].id)
    /\ lastOp' = Op("handleDelete", FALSE, FALSE)
    /\ UNCHANGED <<todos, filter, isDarkMode, store, themeStore, pending, pc>>

\* The oldest delete timer fires: onDeleteTodo(todo.id).
TimerFire ==
    /\ pc = "idle"
    /\ timers # <<>>
    /\ todos' = deleteTodo(todos, Head(timers))
    /\ store' = saveEffect(todos')
    /\ timers' = Tail(timers)
    /\ lastOp' = Op("deleteTodo", todos' # todos, TRUE)
    /\ UNCHANGED <<filter, isDarkMode, themeStore, pending, pc>>

\* Variant of the filter buttons for a TodoItem that clears its timer when it
\* unmounts: the timers of the records the new view hides are dropped.
SetFilterClearsTimers(f) ==
    /\ pc = "idle"
    /\ f # filter
    /\ filter' = f
    /\ timers' = SelectSeq(timers, LAMBDA id :
                     \E k \in 1..Len(todos) :
                        todos[k].id = id /\ matchesFilter(todos[k], f))
    /\ lastOp' = Op("setFilter", FALSE, FALSE)
    /\ UNCHANGED <<todos, isDarkMode, store, themeStore, pending, pc>>

\* Variant of the filter buttons that narrows the collection itself to the
\* chosen view instead of only recording the choice.
SetFilterNarrows(f) ==
    /\ pc = "idle"
    /\ f # filter
    /\ filter' = f
    /\ todos' = filteredTodos(todos, f)
    /\ store' = saveEffect(todos')
    /\ lastOp' = Op("setFilter", FALSE, FALSE)
    /\ UNCHANGED <<isDarkMode, themeStore, pending, timers, pc>>

\* Click on a filter button.
SetFilter(f) ==
    /\ pc = "idle"
    /\ f # filter
    /\ filter' = f
    /\ lastOp' = Op("setFilter", FALSE, FALSE)
    /\ UNCHANGED <<todos, isDarkMode, store, themeStore, pending, timers, pc>>

\* Click on the theme button.
ToggleTheme ==
    /\ pc = "idle"
    /\ isDarkMode' = ~isDarkMode
    /\ themeStore' = themeEffect(isDarkMode')
    /\ lastOp' = Op("toggleTheme", FALSE, FALSE)
    /\ UNCHANGED <<todos, filter, store, pending, timers, pc>>

\* The page is reloaded: the React state and the timers are gone, storage stays.
Reload ==
    /\ pc \in {"idle", "crashed"}
    /\ todos' = <<>>
    /\ filter' = "all"
    /\ isDarkMode' = FALSE
    /\ pending' = NoUpdate
    /\ timers' = <<>>
    /\ pc' = "boot"
    /\ lastOp' = Op("load", FALSE, FALSE)
    /\ UNCHANGED <<store, themeStore>>

Next ==
    \/ Mount
    \/ LoadEffect
    \/ SaveEffect
    \/ ThemeEffect
    \/ Rerender
    \/ \E v \in InputValues : HandleSubmit(v)
    \/ \E k \in 1..MaxTodos : ToggleClick(k)
    \/ \E k \in 1..MaxTodos, v \in InputValues : HandleEdit(k, v)
    \/ \E k \in 1..MaxTodos : HandleDelete(k)
    \/ TimerFire
    \/ \E f \in Filters : SetFilter(f)
    \/ ToggleTheme
    \/ Reload

Spec == Init /\ [][Next]_vars

\* The length limit of the two text inputs (maxLength={100}).
maxLength == 100

\* A task list left under the task key by something other than handleSubmit
\* and handleEdit: the load effect restores whatever parses, so the text of
\* its record is whatever was stored, here one with a leading space.
StoredTodosFromElsewhere ==
    { stringifyTodos(<< [id |-> newId(0, 0), text |-> <<" ", "a">>,
                         completed |-> FALSE, createdAt |-> 0] >>) }

\* The page opened over such a stored list.
InitFromElsewhere ==
    /\ todos = <<>>
    /\ filter = "all"
    /\ isDarkMode = FALSE
    /\ store \in StoredTodosFromElsewhere
    /\ themeStore \in StoredThemeAtStart
    /\ pending = NoUpdate
    /\ timers = <<>>
    /\ pc = "boot"
    /\ lastOp = Op("load", FALSE, FALSE)

SpecFromElsewhere == InitFromElsewhere /\ [][Next]_vars

\* The browser runs the callback of every timer that has expired while the
\* page stays open: handleDelete never clears its timer.
FairSpec == Spec /\ WF_vars(TimerFire)

(***************************************************************************)
(* Properties.                                                             *)
(***************************************************************************)
\* Every id addTodo can generate in the model.
AllIds == { newId(ms, r) : ms \in ClockReadings, r \in RandomSamples }

\* A text that is empty or consists of white space only.
IsBlank(s) == \A k \in 1..Len(s) : s[k] \in Whitespace

\* sub holds exactly the records of list that Keep accepts, in list order.
KeptIndex(list, Keep(_), p) ==
    CHOOSE k \in 1..Len(list) :
        Keep(list[k]) /\ Cardinality({m \in 1..k : Keep(list[m])}) = p

IsSelection(sub, list, Keep(_)) ==
    /\ Len(sub) = Cardinality({k \in 1..Len(list) : Keep(list[k])})
    /\ \A p \in 1..Len(sub) : sub[p] = list[KeptIndex(list, Keep, p)]

\* C1: in every reachable state no two records of the collection have the
\* same id, also when two adds are issued in rapid succession.
C1_UniqueIds ==
    \A i, j \in 1..Len(todos) : i # j => todos[i].id # todos[j].id

\* C2: every add with a non-empty text puts one new record, not completed
\* and with the given (trimmed) text, at the head of the collection and
\* leaves the records that were there, and their order, as they were; so n
\* adds from the empty collection give n records, newest first.
C2_AddPrepends ==
    [][\A v \in InputValues :
          (HandleSubmit(v) /\ ~IsBlank(v)) =>
              /\ Len(todos') = Len(todos) + 1
              /\ Head(todos').text = trim(v)
              /\ Head(todos').completed = FALSE
              /\ Tail(todos') = todos]_vars

\* Two adds have acted: the collection holds their records, newest first.
C2_Witness ==
    /\ lastOp = Op("addTodo", TRUE, TRUE)
    /\ Len(todos) = 2
    /\ todos[1].text # todos[2].text

\* C3: an add whose text is empty or only white space is rejected: the
\* collection and the stored value are unchanged, whatever the state before
\* (a step that changes either, or writes the key, is no such add).
C3_BlankAddRejected ==
    [][\/ (todos' = todos /\ store' = store /\ ~lastOp'.wrote)
       \/ \A v \in InputValues : IsBlank(v) => ~HandleSubmit(v)]_vars

\* A blank add has been rejected in a state that holds records.
C3_Witness ==
    /\ lastOp = Op("handleSubmit", FALSE, FALSE)
    /\ todos # <<>>

\* C4: round trip: the value the save effect has stored is read back by the
\* load effect of the next session as a collection equal to the one in
\* memory: same records, same field values, same order.
C4_RoundTrip ==
    pc = "idle" => loadTodos(store) = [t |-> "array", v |-> todos]

\* A session has restored a stored collection that holds a completed record.
C4_Witness ==
    /\ pc = "idle"
    /\ lastOp = Op("load", FALSE, FALSE)
    /\ \E k \in 1..Len(todos) : todos[k].completed

\* C5: when the task key is absent or holds a text that does not parse, the
\* load effect queues no state, nothing is thrown, and the session becomes
\* idle with the empty collection.
C5_CorruptLoadsEmpty ==
    [][/\ (LoadEffect /\ store \in {Absent, Unparsable}) =>
              (pending' = NoUpdate /\ todos' = <<>> /\ pc' # "crashed")
       /\ (ThemeEffect /\ pending = NoUpdate) =>
              (pc' = "idle" /\ todos' = <<>>)]_vars

\* The load effect has run on an unparsable stored value.
C5_Witness ==
    /\ pc = "saveEffect"
    /\ store = Unparsable
    /\ pending = NoUpdate

\* C6: in every quiescent state the value under the task key is the
\* serialization of the collection in memory.
C6_StoreFollowsMemory ==
    pc = "idle" => store = stringifyTodos(todos)

\* A mutation has been processed and its save effect has run.
C6_Witness ==
    /\ pc = "idle"
    /\ lastOp.changed /\ lastOp.wrote
    /\ todos # <<>>

\* C7: toggle is an involution: toggling the same id twice gives back the
\* collection, for every id.
C7_ToggleInvolution ==
    \A id \in AllIds : toggleTodo(toggleTodo(todos, id), id) = todos

\* A toggle has just turned a record back to pending: it was toggled twice.
C7_Witness ==
    /\ lastOp = Op("toggleTodo", TRUE, TRUE)
    /\ todos # <<>>
    /\ \A k \in 1..Len(todos) : ~todos[k].completed

\* C8: an edit whose trimmed text is empty or equal to the record's text is
\* a no-op: the collection is unchanged and the task key is not written
\* (a step that changes the collection, or writes the key, is no such edit).
C8_SameTextEditIsNoop ==
    [][\/ (todos' = todos /\ store' = store /\ ~lastOp'.wrote)
       \/ LET shown == filteredTodos(todos, filter) IN
          \A v \in InputValues, k \in 1..Len(shown) :
              (IsBlank(v) \/ trim(v) = shown[k].text) => ~HandleEdit(k, v)]_vars

\* An edit that changed nothing has run on a record.
C8_Witness ==
    /\ lastOp = Op("handleEdit", FALSE, FALSE)
    /\ todos # <<>>

\* C9: remove is idempotent, removes the records with the id and leaves the
\* other records and their order unchanged.
C9_RemoveIdempotent ==
    \A id \in AllIds :
        LET removed == deleteTodo(todos, id) IN
        /\ deleteTodo(removed, id) = removed
        /\ IsSelection(removed, todos, LAMBDA todo : todo.id # id)

\* A second remove of an id has run and left the remaining record alone.
C9_Witness ==
    /\ lastOp = Op("deleteTodo", FALSE, TRUE)
    /\ todos # <<>>

\* C10: the three views partition the collection: 'completed' is exactly the
\* completed records, 'pending' exactly the others, 'all' the whole
\* collection, each in collection order.
C10_FilterPartition ==
    LET done == filteredTodos(todos, "completed")
        open == filteredTodos(todos, "pending") IN
    /\ filteredTodos(todos, "all") = todos
    /\ IsSelection(done, todos, LAMBDA todo : todo.completed)
    /\ IsSelection(open, todos, LAMBDA todo : ~todo.completed)
    /\ Len(done) + Len(open) = Len(todos)

\* The completed view is shown over one completed and one pending record.
C10_Witness ==
    /\ filter = "completed"
    /\ Len(filteredTodos(todos, "completed")) = 1
    /\ Len(filteredTodos(todos, "pending")) = 1
\* C11: the stats agree with the collection in every reachable state: total
\* is the number of records, completed the number of completed records,
\* pending the number of the others, and total = completed + pending.
C11_StatsConsistent ==
    /\ totalTodos(todos) = Cardinality({k \in 1..Len(todos) : TRUE})
    /\ completedTodos(todos) = Cardinality({k \in 1..Len(todos) : todos[k].completed})
    /\ pendingTodos(todos) = Cardinality({k \in 1..Len(todos) : ~todos[k].completed})
    /\ totalTodos(todos) = completedTodos(todos) + pendingTodos(todos)

\* The scenario of the spec: two records, one of them toggled to completed.
C11_Witness ==
    /\ lastOp = Op("toggleTodo", TRUE, TRUE)
    /\ totalTodos(todos) = 2
    /\ completedTodos(todos) = 1
    /\ pendingTodos(todos) = 1
\* C12: in every reachable state the text of every record is a non-empty
\* string of at most 100 characters with no leading or trailing whitespace,
\* whether the record came from an add, an edit or the load at startup.
C12_TextWellFormed ==
    \A k \in 1..Len(todos) :
        /\ Len(todos[k].text) > 0
        /\ Len(todos[k].text) <= maxLength
        /\ todos[k].text[1] \notin Whitespace
        /\ todos[k].text[Len(todos[k].text)] \notin Whitespace
\* C13: toggle, edit and remove given an id that no record has are no-ops:
\* they return the collection with the same records, the same field values
\* and the same order (and, being total, raise nothing).
C13_UnknownIdIsNoop ==
    \A id \in AllIds \cup {-1} :
        (\A k \in 1..Len(todos) : todos[k].id # id) =>
            /\ toggleTodo(todos, id) = todos
            /\ deleteTodo(todos, id) = todos
            /\ \A v \in InputValues : editTodo(todos, id, trim(v)) = todos

\* A remove whose id matched nothing has run over a completed record.
C13_Witness ==
    /\ lastOp = Op("deleteTodo", FALSE, TRUE)
    /\ Len(todos) = 1
    /\ todos[1].completed
\* C14: a successful edit changes only the text of the records with the id
\* (their id, completed flag, createdAt and position and every record with
\* another id stay as they were); a toggle changes only the completed flag
\* of the records with the id; and no step changes the id or createdAt of a
\* record that stays in the collection: a step that keeps the length keeps
\* them position by position, an add keeps the old records behind the new
\* one and a step that shortens the collection keeps only records it had.
C14_EditToggleFrame ==
    [][LET shown == filteredTodos(todos, filter) IN
       /\ \/ lastOp'.op # "editTodo"
          \/ \A v \in InputValues, k \in 1..Len(shown) :
                \/ ~HandleEdit(k, v)
                \/ /\ Len(todos') = Len(todos)
                   /\ \A j \in 1..Len(todos) :
                        /\ todos'[j].completed = todos[j].completed
                        /\ todos'[j].text =
                              IF todos[j].id = shown[k].id
                              THEN trim(v) ELSE todos[j].text
       /\ \/ lastOp'.op # "toggleTodo"
          \/ \A k \in 1..Len(shown) :
                \/ ~ToggleClick(k)
                \/ /\ Len(todos') = Len(todos)
                   /\ \A j \in 1..Len(todos) :
                        /\ todos'[j].text = todos[j].text
                        /\ todos'[j].completed =
                              IF todos[j].id = shown[k].id
                              THEN ~todos[j].completed ELSE todos[j].completed
       /\ Len(todos') = Len(todos) =>
             \A j \in 1..Len(todos) :
                /\ todos'[j].id = todos[j].id
                /\ todos'[j].createdAt = todos[j].createdAt
       /\ (Len(todos') = Len(todos) + 1 /\ lastOp'.op = "addTodo") =>
             \A j \in 1..Len(todos) : todos'[j + 1] = todos[j]
       /\ Len(todos') < Len(todos) =>
             \A j \in 1..Len(todos') : \E i \in 1..Len(todos) : todos'[j] = todos[i]
      ]_vars

\* An edit has changed the text of a completed record next to another record.
C14_Witness ==
    /\ lastOp = Op("editTodo", TRUE, TRUE)
    /\ Len(todos) = 2
    /\ \E k \in 1..Len(todos) : todos[k].completed
\* C15: the filter is always one of 'all', 'completed' and 'pending'; it is
\* 'all' at the start and through every startup after a reload, whatever it
\* was before, since it is not stored; a step that changes the collection or
\* writes the task key (add, toggle, edit, remove) leaves the filter as it
\* is; and a change of filter within a session leaves the collection and
\* the stored value as they are.
C15_FilterFrame ==
    [][/\ filter \in Filters /\ filter' \in Filters
       /\ pc # "idle" => filter = "all"
       /\ pc' # "idle" => filter' = "all"
       /\ (lastOp'.wrote \/ (todos' # todos /\ pc' # "boot")) => filter' = filter
       /\ (filter' # filter /\ pc' # "boot") => (todos' = todos /\ store' = store)
      ]_vars

\* The filter was switched to 'pending' over a completed record, which is
\* hidden and still in the collection and in the stored value.
C15_Witness ==
    /\ lastOp = Op("setFilter", FALSE, FALSE)
    /\ filter = "pending"
    /\ \E k \in 1..Len(todos) : todos[k].completed
    /\ store = stringifyTodos(todos)
\* C16: the theme flag and the task collection are persisted and restored
\* independently: a toggle of the theme changes neither the collection nor
\* the task key, a step that writes the task key changes neither the flag
\* nor the theme key, and at startup a stored task list is read and queued
\* for restoring whatever the theme key holds, an unparsable value included.
C16_KeysIndependent ==
    [][/\ (isDarkMode' # isDarkMode /\ pc = "idle" /\ pc' = "idle") =>
             (todos' = todos /\ store' = store)
       /\ lastOp'.wrote => (isDarkMode' = isDarkMode /\ themeStore' = themeStore)
       /\ (pc = "boot" /\ store # Absent /\ parse(store).ok) =>
             pc' = "loadEffect"
       /\ pc = "loadEffect" => pending' = loadTodos(store)
      ]_vars
\* C17: startup loses no stored data: when the load effect has read a
\* well-formed, non-empty stored list, the value under the task key is the
\* serialization of that list at every later step of the startup sequence
\* (save effect of the first render, theme effect, re-render and its save).
C17_StartupKeepsStore ==
    (/\ pc \in {"saveEffect", "themeEffect", "rerender"}
     /\ pending.t = "array"
     /\ pending.v # <<>>) => store = stringifyTodos(pending.v)
\* C18: the delayed delete loses no update: the request itself changes
\* neither the collection nor the stored value and only queues the id, and
\* when a timer fires, whatever was committed since the request, the new
\* collection is the current one without the records that have the id, the
\* others kept as they are and in order, and it is what is stored; a timer
\* whose id is gone already (a second request on the record) changes nothing.
C18_DelayedDeleteLosesNothing ==
    [][/\ \/ lastOp'.op # "handleDelete"
          \/ LET shown == filteredTodos(todos, filter) IN
             \A k \in 1..Len(shown) :
                \/ ~HandleDelete(k)
                \/ /\ todos' = todos
                   /\ store' = store
                   /\ timers' = timers \o <<shown[k].id>>
       /\ \/ ~TimerFire
          \/ /\ IsSelection(todos', todos, LAMBDA todo : todo.id # Head(timers))
             /\ store' = stringifyTodos(todos')
             /\ (\A k \in 1..Len(todos) : todos[k].id # Head(timers)) => todos' = todos
      ]_vars

\* A timer has removed a record while a second request on the same record is
\* still waiting and another record, added meanwhile, is in the collection.
C18_Witness ==
    /\ lastOp = Op("deleteTodo", TRUE, TRUE)
    /\ timers # <<>>
    /\ todos # <<>>
    /\ \A k \in 1..Len(todos) : todos[k].id # Head(timers)
\* C20: the in-memory collection is an ordered sequence of records for
\* every stored value at startup: what the load effect hands to setTodos as
\* the new collection is a list, or it hands over nothing and the empty
\* collection stays, and the render of the collection never fails on it.
C20_CollectionIsList ==
    /\ pending.t \in {"none", "array"}
    /\ pc = "crashed" => (themeStore # Absent /\ ~parse(themeStore).ok)
\* C19: every delete request is eventually honoured: once a delete timer is
\* pending for an id then, the timers being run, eventually no record of the
\* collection has that id and the stored value is that collection, also if
\* the record was toggled, edited or hidden by the filter meanwhile; only
\* leaving the page, which discards the timers, ends the obligation.
C19_DeleteEventuallyHonoured ==
    \A id \in AllIds :
        (\E t \in 1..Len(timers) : timers[t] = id)
            ~> \/ pc = "boot"
               \/ /\ \A k \in 1..Len(todos) : todos[k].id # id
                  /\ store = stringifyTodos(todos)

\* A delete timer is pending for a record that the filter hides, so that its
\* list item is unmounted.
C19_Witness ==
    /\ timers # <<>>
    /\ \E k \in 1..Len(todos) :
          todos[k].id = Head(timers) /\ ~matchesFilter(todos[k], filter)
====
